---- MODULE Spec2Model ----
(***************************************************************************)
(* Movie search service: app/main.py (the /movies/search endpoint) and     *)
(* app/movie_service.py (build_pipeline, hybrid_search, search_documents,  *)
(* normalize_scores).                                                      *)
(*                                                                         *)
(* Numbers.  Python floats are modelled as decimal fixed point.  A raw or  *)
(* normalized score is an integer count of 1/Scale (1e-6), so the          *)
(* normalization epsilon 1e-6 is exactly Epsilon = 1 unit and 1.0 is       *)
(* Scale units.  A division truncates to that resolution (FixDiv).  The    *)
(* weights 0.6 and 0.4 are VectorWeight/WeightDen and TextWeight/WeightDen,*)
(* and a score of a SearchResult is an integer count of                    *)
(* 1/(Scale*WeightDen) (1e-7), so that weighting is exact: 1.0 is One.     *)
(*                                                                         *)
(* Optional values.  An Optional[...] field is the empty set (None) or a   *)
(* singleton set holding the value.                                        *)
(***************************************************************************)
EXTENDS Integers, Sequences, FiniteSets, TLC

\* ------------------------------------------------------------- bounds ----
\* Largest top_k a request of the model asks for.
MaxK == 3

\* ---------------------------------------------------- program constants ----
Scale == 1000000
Epsilon == 1
VectorWeight == 6
TextWeight == 4
WeightDen == 10
CandidateFactor == 20
MaxEdits == 2
One == Scale * WeightDen

VARIABLES
  collection,       \* what the store can return: ids and the scores of each search stage
  query,            \* the SearchQuery of the request
  pc,               \* position of the request in main.search / search_documents / hybrid_search
  pipeline,         \* search_documents' local pipeline (vector or text mode)
  vector_pipeline,  \* hybrid_search's local vector_pipeline
  text_pipeline,    \* hybrid_search's local text_pipeline
  calls,            \* the collection.aggregate calls so far, in order: the pipeline
                    \* handed over, whether the call raised, the documents returned
  vector_results,   \* hybrid_search's local vector_results
  text_results,     \* hybrid_search's local text_results
  result_map,       \* hybrid_search's local result_map, in insertion order
  response,         \* what main.search answers: status and body
  results,          \* normalize_scores' argument
  normalized        \* normalize_scores' return value

vars == <<collection, query, pc, pipeline, vector_pipeline, text_pipeline, calls,
          vector_results, text_results, result_map, response, results, normalized>>

\* ------------------------------------------------------------ helpers ----
None == {}
Some(v) == {v}
IsNone(o) == o = {}
Get(o) == CHOOSE v \in o : TRUE

Min2(a, b) == IF a <= b THEN a ELSE b

\* floor(a * Scale / b) for 0 <= a <= b, computed in two steps of three decimal
\* digits so that no intermediate product leaves 32 bits.
FixDiv(a, b) ==
  LET k  == 1000
      q1 == (a * k) \div b
      r1 == (a * k) % b
      q2 == (r1 * k) \div b
  IN  q1 * k + q2

\* A Python dict in insertion order: a sequence of entries with distinct ids.
DictHas(d, id) == \E i \in 1..Len(d) : d[i].id = id

\* Mutant: the assignment never finds the key and always inserts.
DictSetAlwaysInserts(d, e) == Append(d, e)

\* d[e.id] = e: overwrite in place, or insert at the end.
DictSet(d, e) ==
  IF DictHas(d, e.id)
  THEN [i \in 1..Len(d) |-> IF d[i].id = e.id THEN e ELSE d[i]]
  ELSE Append(d, e)

\* ----------------------------------------------------- normalize_scores ----
\* min(scores), max(scores) over the whole result list.
MinScore(rs) == CHOOSE m \in {rs[i].score : i \in 1..Len(rs)} :
                  \A i \in 1..Len(rs) : m <= rs[i].score
MaxScore(rs) == CHOOSE m \in {rs[i].score : i \in 1..Len(rs)} :
                  \A i \in 1..Len(rs) : m >= rs[i].score

\* Mutant: the epsilon is added to the numerator as well.
NormalizedScoreShifted(raw_score, min_score, range_score) ==
  FixDiv(raw_score - min_score + Epsilon, range_score)

\* normalized_score = (raw_score - min_score) / range_score
NormalizedScore(raw_score, min_score, range_score) ==
  FixDiv(raw_score - min_score, range_score)

RECURSIVE NormalizeFrom(_, _, _, _, _)
NormalizeFrom(rs, i, min_score, range_score, acc) ==
  IF i > Len(rs) THEN acc
  ELSE NormalizeFrom(rs, i + 1, min_score, range_score,
         DictSet(acc, [id    |-> rs[i]._id,
                       doc   |-> rs[i],
                       score |-> NormalizedScore(rs[i].score, min_score, range_score)]))

normalize_scores(rs) ==
  IF rs = <<>> THEN <<>>
  ELSE LET min_score   == MinScore(rs)
           max_score   == MaxScore(rs)
           range_score == max_score - min_score + Epsilon
       IN  NormalizeFrom(rs, 1, min_score, range_score, <<>>)

\* -------------------------------------------------------- hybrid_search ----
\* Mutant: the vector share is not weighted.
VectorEntryUnweighted(v) == [id |-> v.id, doc |-> v.doc, score |-> v.score * WeightDen]

\* result_map[_id] = {"doc": v["doc"], "score": v["score"] * vector_weight}
VectorEntry(v) == [id |-> v.id, doc |-> v.doc, score |-> v.score * VectorWeight]

RECURSIVE MergeVector(_, _, _)
MergeVector(vector_scores, i, map) ==
  IF i > Len(vector_scores) THEN map
  ELSE MergeVector(vector_scores, i + 1, DictSet(map, VectorEntry(vector_scores[i])))

\* Mutant: the text pass overwrites the vector entry instead of adding to it.
TextEntryOverwrites(map, t) == [id |-> t.id, doc |-> t.doc, score |-> t.score * TextWeight]

\* An identity already in result_map gets the weighted text score added to its
\* score and keeps its doc; a new identity is inserted with the text share alone.
TextEntry(map, t) ==
  IF DictHas(map, t.id)
  THEN LET old == map[CHOOSE i \in 1..Len(map) : map[i].id = t.id]
       IN  [old EXCEPT !.score = old.score + t.score * TextWeight]
  ELSE [id |-> t.id, doc |-> t.doc, score |-> t.score * TextWeight]

RECURSIVE MergeText(_, _, _)
MergeText(text_scores, i, map) ==
  IF i > Len(text_scores) THEN map
  ELSE MergeText(text_scores, i + 1, DictSet(map, TextEntry(map, text_scores[i])))

\* The result_map after both merge loops.
Merge(vrs, trs) ==
  MergeText(normalize_scores(trs), 1, MergeVector(normalize_scores(vrs), 1, <<>>))

\* Mutant: reverse=True is missing, the sort is ascending.
BeforeAscending(a, b) == a.score <= b.score

\* key=lambda x: x["score"], reverse=True: does a come no later than b
Before(a, b) == a.score >= b.score

\* Insert e behind every element that may stay before it: equal keys keep the
\* order they came in (Python's sort is stable, also with reverse=True).
RECURSIVE InsertSorted(_, _)
InsertSorted(s, e) ==
  IF s = <<>> THEN <<e>>
  ELSE IF Before(s[Len(s)], e) THEN Append(s, e)
       ELSE Append(InsertSorted(SubSeq(s, 1, Len(s) - 1), e), s[Len(s)])

RECURSIVE Sorted(_)
Sorted(s) ==
  IF s = <<>> THEN <<>>
  ELSE InsertSorted(Sorted(SubSeq(s, 1, Len(s) - 1)), s[Len(s)])

\* sorted_docs[:query.top_k] for a positive top_k
Take(s, k) == SubSeq(s, 1, Min2(k, Len(s)))

\* SearchResult(_id=..., score=d["score"], ...) of hybrid_search
HybridResult(d) == [_id |-> d.id, score |-> d.score]

HybridResults(map, top_k) ==
  LET top == Take(Sorted(map), top_k)
  IN  [i \in 1..Len(top) |-> HybridResult(top[i])]

\* SearchResult(_id=..., score=doc.get("score", 0.0), ...) of search_documents:
\* the mode's own score, not normalized.
SingleResult(doc) == [_id |-> doc._id, score |-> doc.score * WeightDen]

\* ------------------------------------------------------- build_pipeline ----
\* filters = {}; if query.year_gt: ...; if query.genre: ...  (Python truthiness)
YearGiven(q) == ~IsNone(q.year_gt) /\ Get(q.year_gt) # 0
GenreGiven(q) == ~IsNone(q.genre) /\ Get(q.genre) # ""

Filters(q) ==
  [year   |-> IF YearGiven(q) THEN Some([gt |-> Get(q.year_gt)]) ELSE None,
   genres |-> IF GenreGiven(q) THEN Some(Get(q.genre)) ELSE None]

\* bool(filters): a dict is true when it has a key
FiltersTruthy(f) == ~IsNone(f.year) \/ ~IsNone(f.genres)

EmptyStage == [op |-> "{}"]
StageTruthy(stage) == stage # EmptyStage

VectorPipeline(q) ==
  << [op |-> "$vectorSearch", filter |-> Filters(q),
      numCandidates |-> q.top_k * CandidateFactor, limit |-> q.top_k],
     [op |-> "$project", score |-> "vectorSearchScore"] >>

TextStages(q) ==
  << [op |-> "$search", query |-> q.query, maxEdits |-> MaxEdits],
     IF FiltersTruthy(Filters(q)) THEN [op |-> "$match", filter |-> Filters(q)]
                                  ELSE EmptyStage,
     [op |-> "$project", score |-> "searchScore"],
     [op |-> "$limit", limit |-> q.top_k] >>

\* Mutant: the text pipeline is returned without dropping the empty stage.
TextPipelineUnfiltered(q) == TextStages(q)

\* [stage for stage in text_pipeline if stage]
TextPipeline(q) == SelectSeq(TextStages(q), StageTruthy)

\* Mutant: any type but "text" falls through to the vector pipeline.
build_pipeline_vector_default(q) ==
  IF q.type = "text" THEN [raised |-> FALSE, pipeline |-> TextPipeline(q)]
  ELSE [raised |-> FALSE, pipeline |-> VectorPipeline(q)]

\* raised: the ValueError("Invalid search type") of the last line.
build_pipeline(q) ==
  IF q.type = "vector" THEN [raised |-> FALSE, pipeline |-> VectorPipeline(q)]
  ELSE IF q.type = "text" THEN [raised |-> FALSE, pipeline |-> TextPipeline(q)]
  ELSE [raised |-> TRUE, pipeline |-> <<>>]

\* ------------------------------------------------------------ main.search ----
\* except ValueError as e: raise HTTPException(status_code=400, ...)
OnValueError == [status |-> 400, body |-> <<>>]

\* Mutant: the except clause catches the 404 it raised itself and turns it into 400.
AnswerCaught(result) ==
  IF result = <<>> THEN OnValueError
  ELSE [status |-> 200, body |-> result]

\* result = search_documents(query); if not result: raise HTTPException(404);
\* return result.  HTTPException is no ValueError: the except clause lets it pass.
Answer(result) ==
  IF result = <<>> THEN [status |-> 404, body |-> <<>>]
  ELSE [status |-> 200, body |-> result]

\* Any other exception leaves main.search unhandled: the server's 500.
OnOtherError == [status |-> 500, body |-> <<>>]

NoResponse == [status |-> 0, body |-> <<>>]

\* ------------------------------------------------------------ the store ----
\* Sequences of n documents with pairwise distinct _id (the store's _id is
\* unique and no pipeline stage multiplies documents), each with a raw score.
DocSeqs(ids, raws, n) ==
  { [i \in 1..n |-> [_id |-> p[i], score |-> r[i]]] :
      p \in {f \in [1..n -> ids] : \A i, j \in 1..n : i # j => f[i] # f[j]},
      r \in [1..n -> raws] }

\* One collection.aggregate call, as the store saw it.
Returned(p, rs) == [pipeline |-> p, raised |-> FALSE, returned |-> rs]
Raised(p) == [pipeline |-> p, raised |-> TRUE, returned |-> <<>>]

\* What collection.aggregate may return for a pipeline limited to `limit`.
ResultSeqs(ids, raws, limit) ==
  UNION { DocSeqs(ids, raws, n) : n \in 0..Min2(limit, Cardinality(ids)) }

Aggregate(raws) == ResultSeqs(collection.ids, raws, query.top_k)

\* ------------------------------------------------------------- requests ----
Types == {"vector", "text", "hybrid", "fuzzy"}
Years == {None, Some(0), Some(1999)}
Genres == {None, Some(""), Some("Drama")}

Queries(years, genres) ==
  [query : {"war"}, top_k : 1..MaxK, year_gt : years, genre : genres, type : Types]

ApiCollection ==
  [ids |-> {"A", "B"}, vector_scores |-> {500000, 900000},
   text_scores |-> {200000, 800000}]

HybridCollection ==
  [ids |-> {"A", "B", "C"}, vector_scores |-> {500000, 900000, 900001},
   text_scores |-> {200000, 800000, 2000000}]

NormCollection ==
  [ids |-> {"A", "B", "C"},
   vector_scores |-> {200000, 500000, 800000, 900000, 900001, 2000000},
   text_scores |-> {}]

Idle ==
  /\ pipeline = <<>> /\ vector_pipeline = <<>> /\ text_pipeline = <<>>
  /\ calls = <<>> /\ vector_results = <<>> /\ text_results = <<>>
  /\ result_map = <<>> /\ response = NoResponse
  /\ results = <<>> /\ normalized = <<>>

\* A request arrives at POST /movies/search.
Init ==
  /\ collection = ApiCollection
  /\ query \in Queries(Years, Genres)
  /\ pc = "request"
  /\ Idle

InitHybrid ==
  /\ collection = HybridCollection
  /\ query \in Queries({None}, {None})
  /\ pc = "request"
  /\ Idle

\* ------------------------------------------------------------- actions ----
\* main.search -> search_documents up to its first store call: the embedding,
\* the dispatch on query.type and the pipeline construction.
Search ==
  /\ pc = "request"
  /\ IF query.type = "hybrid"
     THEN /\ vector_pipeline' = build_pipeline([query EXCEPT !.type = "vector"]).pipeline
          /\ text_pipeline' = build_pipeline([query EXCEPT !.type = "text"]).pipeline
          /\ pc' = "aggregate_vector"
          /\ UNCHANGED <<pipeline, response>>
     ELSE IF build_pipeline(query).raised
     THEN /\ response' = OnValueError
          /\ pc' = "done"
          /\ UNCHANGED <<pipeline, vector_pipeline, text_pipeline>>
     ELSE /\ pipeline' = build_pipeline(query).pipeline
          /\ pc' = "aggregate"
          /\ UNCHANGED <<vector_pipeline, text_pipeline, response>>
  /\ UNCHANGED <<collection, query, calls, vector_results, text_results,
                 result_map, results, normalized>>

\* search_documents, vector or text mode: the store answers, each document
\* becomes a SearchResult, main.search answers.
AggregateOk ==
  /\ pc = "aggregate"
  /\ \E rs \in Aggregate(IF query.type = "vector" THEN collection.vector_scores
                                                  ELSE collection.text_scores) :
       /\ calls' = Append(calls, Returned(pipeline, rs))
       /\ response' = Answer([i \in 1..Len(rs) |-> SingleResult(rs[i])])
  /\ pc' = "done"
  /\ UNCHANGED <<collection, query, pipeline, vector_pipeline, text_pipeline,
                 vector_results, text_results, result_map, results, normalized>>

\* The store call raises: nothing in search_documents or main.search catches it.
AggregateFails ==
  /\ pc = "aggregate"
  /\ calls' = Append(calls, Raised(pipeline))
  /\ response' = OnOtherError
  /\ pc' = "done"
  /\ UNCHANGED <<collection, query, pipeline, vector_pipeline, text_pipeline,
                 vector_results, text_results, result_map, results, normalized>>

\* hybrid_search: vector_results = list(collection.aggregate(vector_pipeline))
AggregateVectorOk ==
  /\ pc = "aggregate_vector"
  /\ vector_results' \in Aggregate(collection.vector_scores)
  /\ calls' = Append(calls, Returned(vector_pipeline, vector_results'))
  /\ pc' = "aggregate_text"
  /\ UNCHANGED <<collection, query, pipeline, vector_pipeline, text_pipeline,
                 text_results, result_map, response, results, normalized>>

\* Mutant: the vector leg's error is swallowed and the search goes on with the
\* text leg alone.
AggregateVectorFallsBack ==
  /\ pc = "aggregate_vector"
  /\ calls' = Append(calls, Raised(vector_pipeline))
  /\ vector_results' = <<>>
  /\ pc' = "aggregate_text"
  /\ UNCHANGED <<collection, query, pipeline, vector_pipeline, text_pipeline,
                 text_results, result_map, response, results, normalized>>

\* The vector store call raises: hybrid_search has no handler, nor has its caller.
AggregateVectorFails ==
  /\ pc = "aggregate_vector"
  /\ calls' = Append(calls, Raised(vector_pipeline))
  /\ response' = OnOtherError
  /\ pc' = "done"
  /\ UNCHANGED <<collection, query, pipeline, vector_pipeline, text_pipeline,
                 vector_results, text_results, result_map, results, normalized>>

\* hybrid_search from text_results = list(collection.aggregate(text_pipeline))
\* to its return, and main.search's answer.
AggregateTextOk ==
  /\ pc = "aggregate_text"
  /\ \E rs \in Aggregate(collection.text_scores) :
       /\ text_results' = rs
       /\ calls' = Append(calls, Returned(text_pipeline, rs))
       /\ result_map' = Merge(vector_results, rs)
       /\ response' = Answer(HybridResults(Merge(vector_results, rs), query.top_k))
  /\ pc' = "done"
  /\ UNCHANGED <<collection, query, pipeline, vector_pipeline, text_pipeline,
                 vector_results, results, normalized>>

AggregateTextFails ==
  /\ pc = "aggregate_text"
  /\ calls' = Append(calls, Raised(text_pipeline))
  /\ response' = OnOtherError
  /\ pc' = "done"
  /\ UNCHANGED <<collection, query, pipeline, vector_pipeline, text_pipeline,
                 vector_results, text_results, result_map, results, normalized>>

Next ==
  \/ Search
  \/ AggregateOk
  \/ AggregateFails
  \/ AggregateVectorOk
  \/ AggregateVectorFails
  \/ AggregateTextOk
  \/ AggregateTextFails

\* One request to the API, over every request shape and a small store.
Spec == Init /\ [][Next]_vars

\* The same, without filters and over a store with more documents and scores.
SpecHybrid == InitHybrid /\ [][Next]_vars

\* ------------------------------------- normalize_scores on its own ----
InitNorm ==
  /\ collection = NormCollection
  /\ query = [query |-> "war", top_k |-> MaxK, year_gt |-> None, genre |-> None,
              type |-> "hybrid"]
  /\ pc = "normalize"
  /\ pipeline = <<>> /\ vector_pipeline = <<>> /\ text_pipeline = <<>>
  /\ calls = <<>> /\ vector_results = <<>> /\ text_results = <<>>
  /\ result_map = <<>> /\ response = NoResponse
  /\ results \in ResultSeqs(collection.ids, collection.vector_scores, MaxK)
  /\ normalized = <<>>

Normalize ==
  /\ pc = "normalize"
  /\ normalized' = normalize_scores(results)
  /\ pc' = "normalized"
  /\ UNCHANGED <<collection, query, pipeline, vector_pipeline, text_pipeline, calls,
                 vector_results, text_results, result_map, response, results>>

NextNorm == Normalize

SpecNorm == InitNorm /\ [][NextNorm]_vars

\* ============================================================== claims ====
ValidTypes == {"vector", "text", "hybrid"}

Ids(rs) == {rs[i]._id : i \in 1..Len(rs)}
IdSeq(rs) == [i \in 1..Len(rs) |-> rs[i]._id]
Ops(p) == [i \in 1..Len(p) |-> p[i].op]

SetMin(S) == CHOOSE m \in S : \A x \in S : m <= x
SetMax(S) == CHOOSE m \in S : \A x \in S : m >= x
RawScores(rs) == {rs[i].score : i \in 1..Len(rs)}
RawRange(rs) == SetMax(RawScores(rs)) - SetMin(RawScores(rs))

\* hybrid_search has returned its list: both store calls delivered.
HybridReturned ==
  /\ pc = "done" /\ query.type = "hybrid"
  /\ Len(calls) = 2 /\ ~calls[1].raised /\ ~calls[2].raised

\* The normalized score a document has in one result set by the formula
\* (raw - min) / (max - min + epsilon), and 0 when the set does not hold it.
NormShare(rs, id) ==
  IF id \in Ids(rs)
  THEN FixDiv(rs[CHOOSE i \in 1..Len(rs) : rs[i]._id = id].score - SetMin(RawScores(rs)),
              RawRange(rs) + Epsilon)
  ELSE 0

ScoreOf(id) == result_map[CHOOSE m \in 1..Len(result_map) : result_map[m].id = id].score

\* Section 8's scenario: vector scores {A: 0.9, B: 0.5}, text scores {B: 0.8, C: 0.2}.
Scenario ==
  /\ vector_results = << [_id |-> "A", score |-> 900000], [_id |-> "B", score |-> 500000] >>
  /\ text_results = << [_id |-> "B", score |-> 800000], [_id |-> "C", score |-> 200000] >>

\* C1: whatever the two store calls return (shared identities, empty lists),
\* the list hybrid_search returns has at most top_k entries and no two of them
\* carry the same document identity.
C1_AtMostKDistinct ==
  HybridReturned =>
    /\ Len(response.body) <= query.top_k
    /\ \A i, j \in 1..Len(response.body) :
         i # j => response.body[i]._id # response.body[j]._id

\* C1's case: the legs share a document and the merged set is larger than top_k.
C1_SharedAndTruncated ==
  /\ HybridReturned
  /\ Ids(vector_results) \cap Ids(text_results) # {}
  /\ Cardinality(Ids(vector_results) \cup Ids(text_results)) > query.top_k
  /\ Len(response.body) = query.top_k

\* C2: the returned list is non-increasing in combined score and is the first
\* top_k entries of the merged set in that order: it has min(top_k, |merged|)
\* entries, each a merged entry with its score, and no merged document left out
\* scores strictly higher than a returned one; in the scenario with top_k = 2
\* the list is exactly [A, B].
C2_SortedTopK ==
  HybridReturned =>
    LET b == response.body
    IN  /\ \A i, j \in 1..Len(b) : i < j => b[i].score >= b[j].score
        /\ Len(b) = Min2(query.top_k, Len(result_map))
        /\ \A i \in 1..Len(b) : \E m \in 1..Len(result_map) :
             result_map[m].id = b[i]._id /\ result_map[m].score = b[i].score
        /\ \A m \in 1..Len(result_map) :
             (\A i \in 1..Len(b) : b[i]._id # result_map[m].id)
               => \A i \in 1..Len(b) : result_map[m].score <= b[i].score
        /\ (Scenario /\ query.top_k = 2 => IdSeq(b) = <<"A", "B">>)

\* C2's case: the scenario asked with top_k = 2 drops C.
C2_ScenarioTopTwo ==
  /\ HybridReturned /\ Scenario /\ query.top_k = 2
  /\ Len(result_map) = 3
  /\ IdSeq(response.body) = <<"A", "B">>

\* The merged set holds exactly the documents of the two result sets, each
\* with 0.6 * normalized vector score + 0.4 * normalized text score, an absent
\* side counting zero.
WeightedSum ==
  /\ {result_map[m].id : m \in 1..Len(result_map)}
       = Ids(vector_results) \cup Ids(text_results)
  /\ \A m \in 1..Len(result_map) :
       result_map[m].score
         = VectorWeight * NormShare(vector_results, result_map[m].id)
           + TextWeight * NormShare(text_results, result_map[m].id)

\* The scenario's order A, B, C, as far as top_k shows it.
ScenarioOrder ==
  /\ ScoreOf("A") > ScoreOf("B") /\ ScoreOf("B") > ScoreOf("C")
  /\ IdSeq(response.body) = Take(<<"A", "B", "C">>, query.top_k)

\* C3 as stated: every merged score is the weighted sum, and the scenario
\* gives A: 0.6, B: 0.4, C: 0.0 in the order A, B, C.
C3_ScenarioExact ==
  HybridReturned =>
    /\ WeightedSum
    /\ Scenario =>
         /\ ScoreOf("A") = VectorWeight * Scale
         /\ ScoreOf("B") = TextWeight * Scale
         /\ ScoreOf("C") = 0
         /\ ScenarioOrder

\* C3 amended: every merged score is the weighted sum, and the scenario gives
\* A: 0.6 * 0.4/0.400001, B: 0.4 * 0.6/0.600001, C: 0, which are below 0.6 and
\* 0.4 by no more than 2e-6, in the order A, B, C.
C3_ScenarioWithEpsilon ==
  HybridReturned =>
    /\ WeightedSum
    /\ Scenario =>
         /\ ScoreOf("A") = VectorWeight * FixDiv(400000, 400000 + Epsilon)
         /\ ScoreOf("B") = TextWeight * FixDiv(600000, 600000 + Epsilon)
         /\ ScoreOf("C") = 0
         /\ VectorWeight * Scale - ScoreOf("A") \in 1..20
         /\ TextWeight * Scale - ScoreOf("B") \in 1..20
         /\ ScenarioOrder

\* C3's case: the scenario with all three merged documents returned.
C3_ScenarioReturned ==
  /\ HybridReturned /\ Scenario /\ query.top_k = 3
  /\ IdSeq(response.body) = <<"A", "B", "C">>

\* C4: every entry hybrid_search returns has a combined score in [0, 1].
C4_ScoreInUnitInterval ==
  HybridReturned =>
    \A i \in 1..Len(response.body) :
      response.body[i].score >= 0 /\ response.body[i].score <= One

\* C4's case: a document with both shares (above 0.6) next to one scoring 0.
C4_BothEnds ==
  /\ HybridReturned
  /\ \E i \in 1..Len(response.body) : response.body[i].score > VectorWeight * Scale
  /\ \E i \in 1..Len(response.body) : response.body[i].score = 0

\* normalize_scores has returned for a non-empty list.
Normalized == pc = "normalized" /\ results # <<>>
AllEqual == \A i, j \in 1..Len(results) : results[i].score = results[j].score
IsMax(i) == \A j \in 1..Len(results) : results[j].score <= results[i].score
NormOf(i) ==
  normalized[CHOOSE m \in 1..Len(normalized) : normalized[m].id = results[i]._id].score

\* Every document of the list has a normalized score, and it lies in [0, 1].
NormalizedInUnitInterval ==
  /\ {normalized[m].id : m \in 1..Len(normalized)} = Ids(results)
  /\ \A m \in 1..Len(normalized) :
       normalized[m].score >= 0 /\ normalized[m].score <= Scale

\* C5 as stated: normalized scores lie in [0, 1]; with all raw scores equal
\* every one is 0, otherwise the maximum normalizes to 1 within epsilon.
C5_MaxWithinEpsilon ==
  Normalized =>
    /\ NormalizedInUnitInterval
    /\ IF AllEqual
       THEN \A m \in 1..Len(normalized) : normalized[m].score = 0
       ELSE \A i \in 1..Len(results) : IsMax(i) => Scale - NormOf(i) <= Epsilon

\* C5 amended: normalized scores lie in [0, 1]; with all raw scores equal
\* every one is 0, otherwise the maximum gets the greatest normalized score,
\* which is range / (range + epsilon): below 1 by epsilon / (range + epsilon),
\* that is within epsilon of 1 exactly when range + epsilon >= 1.
C5_MaxBelowOne ==
  Normalized =>
    /\ NormalizedInUnitInterval
    /\ IF AllEqual
       THEN \A m \in 1..Len(normalized) : normalized[m].score = 0
       ELSE \A i \in 1..Len(results) : IsMax(i) =>
              LET d == Scale - NormOf(i)
                  r == RawRange(results) + Epsilon
              IN  /\ \A j \in 1..Len(results) : NormOf(j) <= NormOf(i)
                  /\ d >= 1
                  /\ (d - 1) * r < Scale * Epsilon /\ Scale * Epsilon <= d * r
                  /\ (d <= Epsilon) <=> (r >= Scale)

\* C5's case: two raw scores one epsilon apart, the maximum normalizes to 0.5.
C5_MaxAtHalf ==
  /\ Normalized /\ ~AllEqual
  /\ RawRange(results) = Epsilon
  /\ \E i \in 1..Len(results) : IsMax(i) /\ NormOf(i) * 2 = Scale

\* C6: a request whose type is none of vector, text, hybrid ends in the
\* invalid-mode error and no collection.aggregate call is made at any point;
\* build_pipeline itself raises for every type but vector and text, hybrid too.
C6_InvalidModeNoRetrieval ==
  /\ query.type \notin ValidTypes =>
       /\ calls = <<>>
       /\ pc \in {"request", "done"}
       /\ pc = "done" => response = OnValueError
  /\ \A t \in Types :
       build_pipeline([query EXCEPT !.type = t]).raised <=> t \notin {"vector", "text"}

\* C6's case: the "fuzzy" request has been answered.
C6_FuzzyAnswered ==
  /\ query.type = "fuzzy" /\ pc = "done"
  /\ response.status = 400 /\ calls = <<>>

\* The text pipeline the request had built, once it is built.
TextBuilt == pc # "request" /\ query.type \in {"text", "hybrid"}
BuiltText == IF query.type = "text" THEN pipeline ELSE text_pipeline

\* C7: a text pipeline built with an empty filter set is exactly search,
\* projection, limit, with no filter stage and no empty stage; with a
\* non-empty filter set the filter stage sits between search and projection.
C7_NoEmptyFilterStage ==
  TextBuilt =>
    IF FiltersTruthy(Filters(query))
    THEN /\ Ops(BuiltText) = <<"$search", "$match", "$project", "$limit">>
         /\ BuiltText[2].filter = Filters(query)
    ELSE Ops(BuiltText) = <<"$search", "$project", "$limit">>

\* C7's case: a text request without filters, its pipeline built.
C7_UnfilteredTextBuilt ==
  /\ TextBuilt /\ query.type = "text"
  /\ IsNone(query.year_gt) /\ IsNone(query.genre)
  /\ Len(pipeline) = 3

\* C8: in a hybrid search a store call that raises is the last thing that
\* happens: no further call (no retry, no fallback), no merge, no result list,
\* the error reaches the caller.
C8_LegFailureFailsSearch ==
  query.type = "hybrid" =>
    \A i \in 1..Len(calls) : calls[i].raised =>
      /\ i = Len(calls)
      /\ pc = "done"
      /\ response = OnOtherError
      /\ result_map = <<>>

\* C8's case: the vector leg delivered documents and the text leg raised.
C8_TextLegRaised ==
  /\ query.type = "hybrid" /\ Len(calls) = 2
  /\ ~calls[1].raised /\ calls[1].returned # <<>>
  /\ calls[2].raised

AnyRaised == \E i \in 1..Len(calls) : calls[i].raised
NothingReturned == \A i \in 1..Len(calls) : calls[i].returned = <<>>

\* C9 as stated: every request ends in exactly one of: a non-empty list, the
\* not-found outcome for an empty result, the client error for an invalid type.
C9_ThreeOutcomes ==
  pc = "done" =>
    \/ /\ response.status = 200 /\ response.body # <<>>
       /\ query.type \in ValidTypes /\ ~NothingReturned
    \/ /\ response.status = 404
       /\ query.type \in ValidTypes /\ NothingReturned
    \/ /\ response.status = 400
       /\ query.type \notin ValidTypes

\* C9 amended: a request whose store calls all deliver ends in exactly one of
\* those three outcomes (an empty result is always 404, never 400; 400 only
\* for an invalid type); a request with a store call that raises ends in none
\* of them, the error propagating.
C9_OutcomesWithFailure ==
  pc = "done" =>
    /\ query.type \notin ValidTypes => response.status = 400
    /\ query.type \in ValidTypes /\ AnyRaised => response = OnOtherError
    /\ query.type \in ValidTypes /\ ~AnyRaised /\ NothingReturned
         => response.status = 404
    /\ query.type \in ValidTypes /\ ~AnyRaised /\ ~NothingReturned
         => response.status = 200 /\ response.body # <<>>

\* C9's case: a valid request whose store call returned nothing is answered 404.
C9_EmptyIsNotFound ==
  /\ pc = "done" /\ query.type = "text"
  /\ Len(calls) = 1 /\ ~AnyRaised /\ NothingReturned
  /\ response.status = 404

\* The filter set build_pipeline derived, where a built pipeline shows it.
VectorBuilt == pc # "request" /\ query.type \in {"vector", "hybrid"}
BuiltVector == IF query.type = "vector" THEN pipeline ELSE vector_pipeline

\* C10: the derived filter set is empty exactly when the request gives no
\* optional filter; a given year bound (0 included) yields the year
\* greater-than predicate, a given genre ("" included) the genre equality;
\* both pipelines of a hybrid search carry the same filter set.
C10_FiltersFollowRequest ==
  VectorBuilt =>
    LET f == BuiltVector[1].filter
    IN  /\ ~FiltersTruthy(f) <=> IsNone(query.year_gt) /\ IsNone(query.genre)
        /\ ~IsNone(query.year_gt) => f.year = Some([gt |-> Get(query.year_gt)])
        /\ ~IsNone(query.genre) => f.genres = Some(Get(query.genre))
        /\ query.type = "hybrid" /\ FiltersTruthy(f)
             => text_pipeline[2].op = "$match" /\ text_pipeline[2].filter = f

====
